---- MODULE Spec2Model ----
(***************************************************************************)
(* Model of brother_ql/backends/windows_printer.py: the session object     *)
(* BrotherQLBackendWindows (printer_name, hprinter) and the winspool calls *)
(* it issues.  Every method is one atomic step (the backend is             *)
(* synchronous and single-threaded); the results of the OS calls are       *)
(* chosen nondeterministically.  The calls issued by the last method are   *)
(* recorded in `calls`, the exception it raised in `raised`.               *)
(***************************************************************************)
EXTENDS Integers, Sequences, FiniteSets, TLC

\* ---------------------------------------------------------------- bounds
MaxNameLen == 1      \* longest bare printer name tried
MaxLen == 2          \* longest payload handed to _write
MaxHandles == 2      \* handle values the spooler can have open at a time
MaxRegistry == 2     \* most printers registered under the registry key

\* ------------------------------------------------------- program constants
PrefixLen == 10
Prefix == <<"w", "i", "n", "d", "o", "w", "s", ":", "/", "/">>
Latin1Limit == 256

NameChars == {"Q"}
\* how often a specifier repeats the scheme prefix in front of the name
PrefixCounts == {0, 1, 2}
\* code points a text payload is made of: one inside latin-1, one outside
CodePoints == {65, 8364}

\* ------------------------------------------------------------ handle values
\* self.hprinter is None, or a wintypes.HANDLE object holding a value:
\* 0 is the value of a fresh HANDLE() that OpenPrinterW did not fill in.
None == [set |-> FALSE, value |-> 0]
HANDLE(v) == [set |-> TRUE, value |-> v]
\* the spooler hands out the smallest handle value that is not open
NextHandle(os) ==
    LET free == {h \in 1..MaxHandles : h \notin os} \cup {MaxHandles}
    IN  CHOOSE h \in free : \A g \in free : h <= g

Call(fn, h, ok) == [fn |-> fn, h |-> h, ok |-> ok]

\* ------------------------------------------------------------ pure helpers
RECURSIVE SeqsUpTo(_, _)
SeqsUpTo(S, n) ==
    IF n = 0 THEN {<<>>}
    ELSE LET shorter == SeqsUpTo(S, n - 1)
         IN  shorter \cup {Append(s, c) : s \in shorter, c \in S}

RECURSIVE Repeat(_, _)
Repeat(p, k) == IF k = 0 THEN <<>> ELSE p \o Repeat(p, k - 1)

startswith(s, p) == Len(s) >= Len(p) /\ SubSeq(s, 1, Len(p)) = p
slice(s, n) == SubSeq(s, n + 1, Len(s))

\* variant: the prefix is stripped as often as it occurs
resolve_StripRepeated(spec) ==
    IF spec.isStr
    THEN IF startswith(spec.chars, Prefix)
         THEN IF startswith(slice(spec.chars, PrefixLen), Prefix)
              THEN [raised |-> "none",
                    name |-> slice(slice(spec.chars, PrefixLen), PrefixLen)]
              ELSE [raised |-> "none", name |-> slice(spec.chars, PrefixLen)]
         ELSE [raised |-> "none", name |-> spec.chars]
    ELSE [raised |-> "NotImplementedError", name |-> <<>>]

\* isinstance(device_specifier, str) and the prefix stripping of __init__
resolve(spec) ==
    IF spec.isStr
    THEN IF startswith(spec.chars, Prefix)
         THEN [raised |-> "none", name |-> slice(spec.chars, PrefixLen)]
         ELSE [raised |-> "none", name |-> spec.chars]
    ELSE [raised |-> "NotImplementedError", name |-> <<>>]

\* data.encode('latin-1') for a text payload; bytes pass through untouched
encode(data) ==
    IF data.isText
    THEN IF \A i \in 1..Len(data.chars) : data.chars[i] < Latin1Limit
         THEN [raised |-> "none", bytes |-> data.chars]
         ELSE [raised |-> "UnicodeEncodeError", bytes |-> <<>>]
    ELSE [raised |-> "none", bytes |-> data.chars]

\* ------------------------------------------------------------------ inputs
\* a string one character short of the scheme prefix: "windows:/"
NearPrefix == SubSeq(Prefix, 1, PrefixLen - 1)

Specifiers ==
    {[isStr |-> FALSE, chars |-> <<>>]} \cup
    {[isStr |-> TRUE, chars |-> Repeat(Prefix, k) \o n] :
        k \in PrefixCounts, n \in SeqsUpTo(NameChars, MaxNameLen)} \cup
    {[isStr |-> TRUE, chars |-> NearPrefix \o n] :
        n \in SeqsUpTo(NameChars, MaxNameLen)}

\* lengths _read is asked for: negative, zero, one, the default
DefaultLength == 32
Lengths == {-1, 0, 1, DefaultLength}

Payloads ==
    {[isText |-> t, chars |-> s] : t \in BOOLEAN, s \in SeqsUpTo(CodePoints, MaxLen)}
    \ {[isText |-> FALSE, chars |-> s] : s \in {q \in SeqsUpTo(CodePoints, MaxLen) :
                                             \E i \in 1..Len(q) : q[i] >= Latin1Limit}}

\* what the spooler answers to the calls of one _write; the answer to a call
\* that an earlier failure keeps from being made is fixed to FALSE / 0
Outcomes ==
    {o \in [open : BOOLEAN, startDoc : BOOLEAN, startPage : BOOLEAN,
            write : BOOLEAN, written : 0..MaxLen, endPage : BOOLEAN,
            endDoc : BOOLEAN] :
        /\ ~o.open => ~o.startDoc
        /\ ~o.startDoc => ~o.startPage /\ ~o.endDoc
        /\ ~o.startPage => ~o.write /\ o.written = 0
        /\ ~o.write => ~o.endPage}

\* ------------------------------------------------------ the printer registry
Brother == <<"B", "r", "o", "t", "h", "e", "r">>
QL == <<"Q", "L">>
common_names ==
    <<Brother \o <<" ">> \o QL \o <<"-", "5", "0", "0">>,
      Brother \o <<" ">> \o QL \o <<"-", "5", "5", "0">>,
      Brother \o <<" ">> \o QL \o <<"-", "6", "0", "0">>,
      Brother \o <<" ">> \o QL \o <<"-", "7", "0", "0">>>>

\* printer names found in a registry: with either marker, with both, with
\* none, and with the markers in the wrong case
RegistryNames ==
    {<<"H", "P">>,
     Brother \o <<" ", "X">>,
     <<"x">> \o QL,
     Brother \o <<" ">> \o QL,
     <<"b", "r", "o", "t", "h", "e", "r", " ", "q", "l">>}

\* a registry: whether winreg can be imported, whether OpenKey succeeds, the
\* subkey names in EnumKey order, the index at which EnumKey raises OSError
\* (the number of names when it only raises at the end), whether CloseKey
\* succeeds
Registries ==
    {r \in [importOk : BOOLEAN, openOk : BOOLEAN,
            names : SeqsUpTo(RegistryNames, MaxRegistry),
            failAt : 0..MaxRegistry, closeOk : BOOLEAN] :
        r.failAt <= Len(r.names)}

NoRegistry ==
    [importOk |-> FALSE, openOk |-> FALSE, names |-> <<>>, failAt |-> 0,
     closeOk |-> FALSE]

\* 'x' in s for strings
contains(s, x) ==
    \E i \in 1..(Len(s) - Len(x) + 1) : SubSeq(s, i, i + Len(x) - 1) = x

descriptor(name) == [identifier |-> Prefix \o name, instance |-> "None"]

\* variant: a name has to carry both markers
is_candidate_Both(printer_name) ==
    contains(printer_name, Brother) /\ contains(printer_name, QL)

\* 'Brother' in printer_name or 'QL' in printer_name
is_candidate(printer_name) ==
    contains(printer_name, Brother) \/ contains(printer_name, QL)

\* the while loop over EnumKey: it ends at the first OSError
RECURSIVE enum_keys(_, _, _)
enum_keys(reg, i, devices) ==
    IF i >= reg.failAt
    THEN devices
    ELSE enum_keys(reg, i + 1,
                   IF is_candidate(reg.names[i + 1])
                   THEN Append(devices, descriptor(reg.names[i + 1]))
                   ELSE devices)

\* list_available_devices: an import error gives the empty list; a failing
\* OpenKey or CloseKey is logged and leaves the devices found so far; with
\* none found the common names are returned instead
list_available_devices(reg) ==
    IF ~reg.importOk
    THEN [raised |-> "none", devices |-> <<>>]
    ELSE LET found == IF reg.openOk THEN enum_keys(reg, 0, <<>>) ELSE <<>>
         IN  IF found = <<>>
             THEN [raised |-> "none",
                   devices |-> [k \in 1..Len(common_names) |->
                                   descriptor(common_names[k])]]
             ELSE [raised |-> "none", devices |-> found]

NotListed == [done |-> FALSE, raised |-> "none", devices |-> <<>>]

\* ------------------------------------------------------------------- state
VARIABLES phase,         \* "new", "live", "failed" (__init__ raised), "gone"
          printer_name,  \* self.printer_name
          hprinter,      \* self.hprinter
          osHandles,     \* spooler: handles opened and not yet closed
          lastOp,        \* the method that ran last
          calls,         \* the winspool calls that method made, in order
          raised,        \* the exception it raised, "none" if it returned
          written,       \* written.value after WritePrinter, NoCount if not called
          requested,     \* len(data) handed to WritePrinter, NoCount if not called
          prev,          \* lastOp and raised of the method before the last
          device_specifier,  \* the argument __init__ was given
          returned,      \* what the last method returned: bytes, or None
          registry,      \* what winreg holds and how it answers
          listing        \* the outcome of list_available_devices

vars == <<phase, printer_name, hprinter, osHandles,
          lastOp, calls, raised, written, requested, prev,
          device_specifier, returned, registry, listing>>

NoCount == -1
NoReturn == [isBytes |-> FALSE, bytes |-> <<>>]
Bytes(b) == [isBytes |-> TRUE, bytes |-> b]

\* ----------------------------------------------------------------- methods
\* variant: no check for a handle that is already held
_open_printer_NoGuard(hp, os, ok) ==
    IF ok
    THEN [hprinter |-> HANDLE(NextHandle(os)),
          calls |-> <<Call("OpenPrinterW", NextHandle(os), TRUE)>>,
          raised |-> "none"]
    ELSE [hprinter |-> HANDLE(0),
          calls |-> <<Call("OpenPrinterW", 0, FALSE)>>,
          raised |-> "OSError"]

\* _open_printer: a held handle short-circuits; otherwise self.hprinter is
\* bound to a fresh HANDLE() before OpenPrinterW is asked to fill it in.
_open_printer(hp, os, ok) ==
    IF hp # None
    THEN [hprinter |-> hp, calls |-> <<>>, raised |-> "none"]
    ELSE IF ok
         THEN [hprinter |-> HANDLE(NextHandle(os)),
               calls |-> <<Call("OpenPrinterW", NextHandle(os), TRUE)>>,
               raised |-> "none"]
         ELSE [hprinter |-> HANDLE(0),
               calls |-> <<Call("OpenPrinterW", 0, FALSE)>>,
               raised |-> "OSError"]

\* variant: the handle is cleared only when ClosePrinter reports success
_close_printer_KeepOnFailure(hp, ok) ==
    IF hp # None
    THEN [hprinter |-> IF ok THEN None ELSE hp,
          calls |-> <<Call("ClosePrinter", hp.value, ok)>>, raised |-> "none"]
    ELSE [hprinter |-> hp, calls |-> <<>>, raised |-> "none"]

\* variant: the handle is dropped without telling the spooler
_close_printer_NoOsClose(hp, ok) ==
    [hprinter |-> None, calls |-> <<>>, raised |-> "none"]

\* _close_printer: the result of ClosePrinter is not looked at
_close_printer(hp, ok) ==
    IF hp # None
    THEN [hprinter |-> None, calls |-> <<Call("ClosePrinter", hp.value, ok)>>,
          raised |-> "none"]
    ELSE [hprinter |-> hp, calls |-> <<>>, raised |-> "none"]

\* variant: the page is ended before the data is written
page_EndPageFirst(h, n, o) ==
    IF ~o.startPage
    THEN [calls |-> <<Call("StartPagePrinter", h, FALSE)>>,
          raised |-> "IOError:StartPagePrinter", written |-> NoCount]
    ELSE IF ~o.write
         THEN [calls |-> <<Call("StartPagePrinter", h, TRUE),
                           Call("EndPagePrinter", h, o.endPage),
                           Call("WritePrinter", h, FALSE)>>,
               raised |-> "IOError:WritePrinter", written |-> o.written]
         ELSE [calls |-> <<Call("StartPagePrinter", h, TRUE),
                           Call("EndPagePrinter", h, o.endPage),
                           Call("WritePrinter", h, TRUE)>>,
               raised |-> "none", written |-> o.written]

\* variant: the result of StartPagePrinter is not looked at
page_IgnoreStartPage(h, n, o) ==
    IF ~o.write
    THEN [calls |-> <<Call("StartPagePrinter", h, o.startPage),
                      Call("WritePrinter", h, FALSE)>>,
          raised |-> "IOError:WritePrinter", written |-> o.written]
    ELSE [calls |-> <<Call("StartPagePrinter", h, o.startPage),
                      Call("WritePrinter", h, TRUE),
                      Call("EndPagePrinter", h, o.endPage)>>,
          raised |-> "none", written |-> o.written]

\* variant: a failing EndPagePrinter raises like the calls before it
page_RaiseOnEndPage(h, n, o) ==
    IF ~o.startPage
    THEN [calls |-> <<Call("StartPagePrinter", h, FALSE)>>,
          raised |-> "IOError:StartPagePrinter", written |-> NoCount]
    ELSE IF ~o.write
         THEN [calls |-> <<Call("StartPagePrinter", h, TRUE),
                           Call("WritePrinter", h, FALSE)>>,
               raised |-> "IOError:WritePrinter", written |-> o.written]
         ELSE [calls |-> <<Call("StartPagePrinter", h, TRUE),
                           Call("WritePrinter", h, TRUE),
                           Call("EndPagePrinter", h, o.endPage)>>,
               raised |-> IF o.endPage THEN "none" ELSE "IOError:EndPagePrinter",
               written |-> o.written]

\* the inner try block of _write: StartPagePrinter, WritePrinter, EndPagePrinter
page(h, n, o) ==
    IF ~o.startPage
    THEN [calls |-> <<Call("StartPagePrinter", h, FALSE)>>,
          raised |-> "IOError:StartPagePrinter", written |-> NoCount]
    ELSE IF ~o.write
         THEN [calls |-> <<Call("StartPagePrinter", h, TRUE),
                           Call("WritePrinter", h, FALSE)>>,
               raised |-> "IOError:WritePrinter", written |-> o.written]
         ELSE [calls |-> <<Call("StartPagePrinter", h, TRUE),
                           Call("WritePrinter", h, TRUE),
                           Call("EndPagePrinter", h, o.endPage)>>,
               raised |-> "none", written |-> o.written]

\* variant: StartDocPrinterW moved inside the try, so the finally clause runs
\* EndDocPrinter for a document that never started
job_EndDocAlways(h, n, o) ==
    IF ~o.startDoc
    THEN [calls |-> <<Call("StartDocPrinterW", h, FALSE),
                      Call("EndDocPrinter", h, FALSE)>>,
          raised |-> "IOError:StartDocPrinter", written |-> NoCount]
    ELSE LET p == page(h, n, o)
         IN  [calls |-> <<Call("StartDocPrinterW", h, TRUE)>> \o p.calls
                        \o <<Call("EndDocPrinter", h, o.endDoc)>>,
              raised |-> p.raised, written |-> p.written]

\* variant: EndDocPrinter at the end of the try block instead of in finally
job_NoFinally(h, n, o) ==
    IF ~o.startDoc
    THEN [calls |-> <<Call("StartDocPrinterW", h, FALSE)>>,
          raised |-> "IOError:StartDocPrinter", written |-> NoCount]
    ELSE LET p == page(h, n, o)
         IN  [calls |-> <<Call("StartDocPrinterW", h, TRUE)>> \o p.calls
                        \o (IF p.raised = "none"
                            THEN <<Call("EndDocPrinter", h, o.endDoc)>>
                            ELSE <<>>),
              raised |-> p.raised, written |-> p.written]

\* StartDocPrinterW and the try/finally around the page: EndDocPrinter runs
\* whenever the document was started, and its result is only logged.
job(h, n, o) ==
    IF ~o.startDoc
    THEN [calls |-> <<Call("StartDocPrinterW", h, FALSE)>>,
          raised |-> "IOError:StartDocPrinter", written |-> NoCount]
    ELSE LET p == page(h, n, o)
         IN  [calls |-> <<Call("StartDocPrinterW", h, TRUE)>> \o p.calls
                        \o <<Call("EndDocPrinter", h, o.endDoc)>>,
              raised |-> p.raised, written |-> p.written]

\* variant: the except clause closes the printer before re-raising
_write_CloseOnError(hp, os, data, o) ==
    LET op == _open_printer(hp, os, o.open)
        enc == encode(data)
    IN  IF op.raised # "none"
        THEN [hprinter |-> op.hprinter, calls |-> op.calls, raised |-> op.raised,
              written |-> NoCount, requested |-> NoCount]
        ELSE IF enc.raised # "none"
        THEN [hprinter |-> op.hprinter, calls |-> op.calls, raised |-> enc.raised,
              written |-> NoCount, requested |-> NoCount]
        ELSE LET j == job(op.hprinter.value, Len(enc.bytes), o)
                 cl == _close_printer(op.hprinter, TRUE)
             IN  IF j.raised = "none"
                 THEN [hprinter |-> op.hprinter, calls |-> op.calls \o j.calls,
                       raised |-> j.raised, written |-> j.written,
                       requested |-> Len(enc.bytes)]
                 ELSE [hprinter |-> cl.hprinter,
                       calls |-> op.calls \o j.calls \o cl.calls,
                       raised |-> j.raised, written |-> j.written,
                       requested |-> Len(enc.bytes)]

\* variant: the printer is closed after a job that went through
_write_CloseAfterJob(hp, os, data, o) ==
    LET op == _open_printer(hp, os, o.open)
        enc == encode(data)
    IN  IF op.raised # "none"
        THEN [hprinter |-> op.hprinter, calls |-> op.calls, raised |-> op.raised,
              written |-> NoCount, requested |-> NoCount]
        ELSE IF enc.raised # "none"
        THEN [hprinter |-> op.hprinter, calls |-> op.calls, raised |-> enc.raised,
              written |-> NoCount, requested |-> NoCount]
        ELSE LET j == job(op.hprinter.value, Len(enc.bytes), o)
                 cl == _close_printer(op.hprinter, TRUE)
             IN  IF j.raised # "none"
                 THEN [hprinter |-> op.hprinter, calls |-> op.calls \o j.calls,
                       raised |-> j.raised, written |-> j.written,
                       requested |-> Len(enc.bytes)]
                 ELSE [hprinter |-> cl.hprinter,
                       calls |-> op.calls \o j.calls \o cl.calls,
                       raised |-> j.raised, written |-> j.written,
                       requested |-> Len(enc.bytes)]

\* _write: open on demand, encode text, run the job; every exception is
\* logged and re-raised, the handle is left as _open_printer set it.
_write(hp, os, data, o) ==
    LET op == _open_printer(hp, os, o.open)
        enc == encode(data)
    IN  IF op.raised # "none"
        THEN [hprinter |-> op.hprinter, calls |-> op.calls, raised |-> op.raised,
              written |-> NoCount, requested |-> NoCount]
        ELSE IF enc.raised # "none"
        THEN [hprinter |-> op.hprinter, calls |-> op.calls, raised |-> enc.raised,
              written |-> NoCount, requested |-> NoCount]
        ELSE LET j == job(op.hprinter.value, Len(enc.bytes), o)
             IN  [hprinter |-> op.hprinter, calls |-> op.calls \o j.calls,
                  raised |-> j.raised, written |-> j.written,
                  requested |-> Len(enc.bytes)]

\* the spooler's bookkeeping: handles it has opened and not been asked to close
Opened(cs) == {cs[i].h : i \in {k \in 1..Len(cs) : cs[k].fn = "OpenPrinterW" /\ cs[k].ok}}
Closed(cs) == {cs[i].h : i \in {k \in 1..Len(cs) : cs[k].fn = "ClosePrinter"}}

\* ------------------------------------------------------------------ actions
Init ==
    /\ phase = "new"
    /\ printer_name = <<>>
    /\ hprinter = None
    /\ osHandles = {}
    /\ lastOp = "none"
    /\ calls = <<>>
    /\ raised = "none"
    /\ written = NoCount
    /\ requested = NoCount
    /\ prev = [op |-> "none", raised |-> "none"]
    /\ device_specifier = [isStr |-> TRUE, chars |-> <<>>]
    /\ returned = NoReturn
    /\ registry = NoRegistry
    /\ listing = NotListed

Record(op, hp, cs, exc, w, r, ret) ==
    /\ returned' = ret
    /\ UNCHANGED <<registry, listing>>
    /\ lastOp' = op
    /\ hprinter' = hp
    /\ calls' = cs
    /\ raised' = exc
    /\ written' = w
    /\ requested' = r
    /\ prev' = [op |-> lastOp, raised |-> raised]
    /\ osHandles' = (osHandles \cup Opened(cs)) \ Closed(cs)

\* variant: the probe opens the printer and does not close it again
__init__NoClose(spec, os, okOpen, okClose) ==
    LET res == resolve(spec)
    IN  IF res.raised # "none"
        THEN [printer_name |-> <<>>, hprinter |-> None, calls |-> <<>>,
              raised |-> res.raised]
        ELSE IF res.name = <<>>
        THEN [printer_name |-> res.name, hprinter |-> None, calls |-> <<>>,
              raised |-> "ValueError:Invalid printer name"]
        ELSE LET op == _open_printer(None, os, okOpen)
             IN  IF op.raised # "none"
                 THEN [printer_name |-> res.name, hprinter |-> op.hprinter,
                       calls |-> op.calls,
                       raised |-> "ValueError:Could not open printer: " \o op.raised]
                 ELSE [printer_name |-> res.name, hprinter |-> op.hprinter,
                       calls |-> op.calls, raised |-> "none"]

\* variant: no check for an empty printer name before the probe
__init__NoNameCheck(spec, os, okOpen, okClose) ==
    LET res == resolve(spec)
    IN  IF res.raised # "none"
        THEN [printer_name |-> <<>>, hprinter |-> None, calls |-> <<>>,
              raised |-> res.raised]
        ELSE LET op == _open_printer(None, os, okOpen)
                 cl == _close_printer(op.hprinter, okClose)
             IN  IF op.raised # "none"
                 THEN [printer_name |-> res.name, hprinter |-> op.hprinter,
                       calls |-> op.calls,
                       raised |-> "ValueError:Could not open printer: " \o op.raised]
                 ELSE [printer_name |-> res.name, hprinter |-> cl.hprinter,
                       calls |-> op.calls \o cl.calls, raised |-> "none"]

\* __init__: resolve the name, then open and close once to probe the printer;
\* whatever the probe raises is re-raised as ValueError.
__init__(spec, os, okOpen, okClose) ==
    LET res == resolve(spec)
    IN  IF res.raised # "none"
        THEN [printer_name |-> <<>>, hprinter |-> None, calls |-> <<>>,
              raised |-> res.raised]
        ELSE IF res.name = <<>>
        THEN [printer_name |-> res.name, hprinter |-> None, calls |-> <<>>,
              raised |-> "ValueError:Invalid printer name"]
        ELSE LET op == _open_printer(None, os, okOpen)
                 cl == _close_printer(op.hprinter, okClose)
             IN  IF op.raised # "none"
                 THEN [printer_name |-> res.name, hprinter |-> op.hprinter,
                       calls |-> op.calls,
                       raised |-> "ValueError:Could not open printer: " \o op.raised]
                 ELSE [printer_name |-> res.name, hprinter |-> cl.hprinter,
                       calls |-> op.calls \o cl.calls, raised |-> "none"]

\* variant: dispose forgets to close the printer
dispose_NoClose(hp, ok) ==
    [hprinter |-> hp, calls |-> <<>>, raised |-> "none"]

\* dispose: _close_printer with every exception swallowed
dispose(hp, ok) ==
    LET cl == _close_printer(hp, ok)
    IN  [hprinter |-> cl.hprinter, calls |-> cl.calls, raised |-> "none"]

Construct ==
    /\ phase = "new"
    /\ \E spec \in Specifiers, okOpen \in BOOLEAN, okClose \in BOOLEAN :
         LET r == __init__(spec, osHandles, okOpen, okClose)
         IN  /\ Record("Construct", r.hprinter, r.calls, r.raised, NoCount, NoCount, NoReturn)
             /\ printer_name' = r.printer_name
             /\ device_specifier' = spec
             /\ phase' = IF r.raised = "none" THEN "live" ELSE "failed"

Open ==
    /\ phase = "live"
    /\ \E ok \in BOOLEAN :
         LET r == _open_printer(hprinter, osHandles, ok)
         IN  Record("Open", r.hprinter, r.calls, r.raised, NoCount, NoCount, NoReturn)
    /\ UNCHANGED <<phase, printer_name, device_specifier>>

Close ==
    /\ phase = "live"
    /\ \E ok \in BOOLEAN :
         LET r == _close_printer(hprinter, ok)
         IN  Record("Close", r.hprinter, r.calls, r.raised, NoCount, NoCount, NoReturn)
    /\ UNCHANGED <<phase, printer_name, device_specifier>>

\* The answers the spooler can give to one _write.  With a handle held
\* OpenPrinterW is not asked, and its unused answer is fixed: TRUE for a
\* handle the spooler has open, FALSE for a value it never issued, on which
\* no call can succeed.  WritePrinter accepts at most the bytes it is given.
Answers(hp, data) ==
    {o \in Outcomes :
        /\ hp # None => (o.open <=> hp.value \in osHandles)
        /\ o.written <= Len(data.chars)}

Write ==
    /\ phase = "live"
    /\ \E data \in Payloads :
         \E o \in Answers(hprinter, data) :
            LET r == _write(hprinter, osHandles, data, o)
            IN  Record("Write", r.hprinter, r.calls, r.raised, r.written, r.requested, NoReturn)
    /\ UNCHANGED <<phase, printer_name, device_specifier>>

\* variant: as many zero bytes as were asked for
_read_Zeros(hp, length) ==
    [hprinter |-> hp, calls |-> <<>>, raised |-> "none",
     bytes |-> [i \in 1..length |-> 0]]

\* _read: there is nothing to read back; the length asked for is ignored
_read(hp, length) ==
    [hprinter |-> hp, calls |-> <<>>, raised |-> "none", bytes |-> <<>>]

Read ==
    /\ phase = "live"
    /\ \E length \in Lengths :
         LET r == _read(hprinter, length)
         IN  Record("Read", r.hprinter, r.calls, r.raised, NoCount, NoCount,
                    Bytes(r.bytes))
    /\ UNCHANGED <<phase, printer_name, device_specifier>>

Dispose ==
    /\ phase = "live"
    /\ \E ok \in BOOLEAN :
         LET r == dispose(hprinter, ok)
         IN  Record("Dispose", r.hprinter, r.calls, r.raised, NoCount, NoCount, NoReturn)
    /\ UNCHANGED <<phase, printer_name, device_specifier>>

\* __del__: runs dispose when the object goes away, also the object that
\* __init__ left half-built by raising
Del ==
    /\ phase \in {"live", "failed"}
    /\ \E ok \in BOOLEAN :
         LET r == dispose(hprinter, ok)
         IN  Record("__del__", r.hprinter, r.calls, r.raised, NoCount, NoCount, NoReturn)
    /\ phase' = "gone"
    /\ UNCHANGED <<printer_name, device_specifier>>

Next == Construct \/ Open \/ Close \/ Write \/ Read \/ Dispose \/ Del

Spec == Init /\ [][Next]_vars

\* ----------------------------------------------------- the enumerator alone
\* list_available_devices is a module-level function: it is run once against
\* every registry, with no session around.
InitEnum ==
    /\ phase = "new"
    /\ printer_name = <<>>
    /\ hprinter = None
    /\ osHandles = {}
    /\ lastOp = "none"
    /\ calls = <<>>
    /\ raised = "none"
    /\ written = NoCount
    /\ requested = NoCount
    /\ prev = [op |-> "none", raised |-> "none"]
    /\ device_specifier = [isStr |-> TRUE, chars |-> <<>>]
    /\ returned = NoReturn
    /\ registry \in Registries
    /\ listing = NotListed

ListDevices ==
    /\ ~listing.done
    /\ LET r == list_available_devices(registry)
       IN  listing' = [done |-> TRUE, raised |-> r.raised, devices |-> r.devices]
    /\ UNCHANGED <<phase, printer_name, hprinter, osHandles, lastOp, calls,
                   raised, written, requested, prev, device_specifier,
                   returned, registry>>

NextEnum == ListDevices

SpecEnum == InitEnum /\ [][NextEnum]_vars

\* --------------------------------------------------- reading the call record
Fns(cs) == [i \in 1..Len(cs) |-> cs[i].fn]
Count(cs, fn) == Cardinality({i \in 1..Len(cs) : cs[i].fn = fn})
Failed(cs, fn) == \E i \in 1..Len(cs) : cs[i].fn = fn /\ ~cs[i].ok
Succeeded(cs, fn) == \E i \in 1..Len(cs) : cs[i].fn = fn /\ cs[i].ok
AllOk(cs) == \A i \in 1..Len(cs) : cs[i].ok
FullJob == <<"StartDocPrinterW", "StartPagePrinter", "WritePrinter",
             "EndPagePrinter", "EndDocPrinter">>
JobErrors == {"IOError:StartDocPrinter", "IOError:StartPagePrinter",
              "IOError:WritePrinter"}

\* ------------------------------------------------------------------- claims

\* C1: when StartDocPrinterW fails in a write, the write raises the job-start
\* error, calls none of StartPagePrinter, WritePrinter, EndPagePrinter,
\* EndDocPrinter, does not close the handle, and the handle is still held.
C1_BeginDocFailure ==
    (lastOp = "Write" /\ Failed(calls, "StartDocPrinterW")) =>
        /\ raised = "IOError:StartDocPrinter"
        /\ Count(calls, "StartPagePrinter") = 0
        /\ Count(calls, "WritePrinter") = 0
        /\ Count(calls, "EndPagePrinter") = 0
        /\ Count(calls, "EndDocPrinter") = 0
        /\ Count(calls, "ClosePrinter") = 0
        /\ hprinter # None

C1_Witness ==
    /\ lastOp = "Write"
    /\ Failed(calls, "StartDocPrinterW")
    /\ hprinter.value \in osHandles

\* C2: a write whose WritePrinter call accepted fewer bytes than the payload
\* holds raises the transfer error; it never returns normally.
C2_ShortTransferFails ==
    (lastOp = "Write" /\ written # NoCount /\ written < requested) =>
        raised = "IOError:WritePrinter"

\* C3: once WritePrinter was called in a write, EndPagePrinter and
\* EndDocPrinter are each called exactly once, in that order, whatever
\* WritePrinter answered.
C3_TeardownAfterTransfer ==
    (lastOp = "Write" /\ Count(calls, "WritePrinter") > 0) =>
        /\ Count(calls, "EndPagePrinter") = 1
        /\ Count(calls, "EndDocPrinter") = 1
        /\ SubSeq(Fns(calls), Len(calls) - 1, Len(calls))
             = <<"EndPagePrinter", "EndDocPrinter">>

\* C4: a write calls EndDocPrinter exactly once if StartDocPrinterW
\* succeeded, and not at all if it failed or was never called.
C4_EndDocIffDocBegun ==
    lastOp = "Write" =>
        Count(calls, "EndDocPrinter")
            = (IF Succeeded(calls, "StartDocPrinterW") THEN 1 ELSE 0)

C4_Witness ==
    /\ lastOp = "Write"
    /\ Succeeded(calls, "StartDocPrinterW")
    /\ Failed(calls, "StartPagePrinter")
    /\ Count(calls, "EndDocPrinter") = 1

\* C5: a write in which every winspool call succeeds and WritePrinter reports
\* the whole payload returns normally, having called StartDocPrinterW,
\* StartPagePrinter, WritePrinter, EndPagePrinter, EndDocPrinter once each in
\* this order, after one OpenPrinterW exactly when no handle was held.
C5_CleanWrite ==
    [][(lastOp' = "Write" /\ AllOk(calls') /\ written' = requested'
           /\ raised' # "UnicodeEncodeError") =>
        /\ raised' = "none"
        /\ Fns(calls') = (IF hprinter = None THEN <<"OpenPrinterW">> ELSE <<>>)
                            \o FullJob]_vars

C5_Witness ==
    /\ lastOp = "Write"
    /\ raised = "none"
    /\ AllOk(calls)
    /\ requested = MaxLen
    /\ written = requested
    /\ Fns(calls) = FullJob

\* C6: after a write that raised one of the three job errors the handle is
\* still held and the write made no ClosePrinter call; the next write makes no
\* OpenPrinterW call and goes straight to StartDocPrinterW.
C6_FailedWriteKeepsHandle ==
    [][(lastOp = "Write" /\ raised \in JobErrors) =>
        /\ hprinter # None
        /\ Count(calls, "ClosePrinter") = 0
        /\ (lastOp' = "Write" =>
              /\ Count(calls', "OpenPrinterW") = 0
              /\ hprinter' = hprinter
              /\ (raised' # "UnicodeEncodeError" =>
                    calls'[1].fn = "StartDocPrinterW"))]_vars

C6_Witness ==
    /\ prev.op = "Write"
    /\ prev.raised \in JobErrors
    /\ lastOp = "Write"
    /\ raised = "none"
    /\ Fns(calls) = FullJob

\* C7 as stated: after every write, completed or failed, the session holds no
\* handle.
C7_HandleReleasedAfterWrite ==
    lastOp = "Write" => hprinter = None

\* C7 amended: a write never releases the handle: it makes no ClosePrinter
\* call and the session holds a handle after it, completed or failed.
C7_HandleKeptAfterWrite ==
    lastOp = "Write" => (hprinter # None /\ Count(calls, "ClosePrinter") = 0)

C7_Witness ==
    /\ lastOp = "Write"
    /\ raised = "none"
    /\ hprinter.value \in osHandles

\* C8: a write whose OpenPrinterW fails raises before any StartDocPrinterW
\* call, and the next Open or Write on the session calls OpenPrinterW again.
C8_ReopenAfterFailedOpen ==
    [][(lastOp = "Write" /\ Failed(calls, "OpenPrinterW")) =>
        /\ raised = "OSError"
        /\ Count(calls, "StartDocPrinterW") = 0
        /\ (lastOp' \in {"Open", "Write"} =>
              Count(calls', "OpenPrinterW") = 1)]_vars

\* C9: the second of two Opens in a row makes no OpenPrinterW call and leaves
\* the handle as it was; the first makes exactly one when no handle was held,
\* so the two together make exactly one.
C9_OpenIdempotent ==
    [][/\ (lastOp' = "Open" /\ hprinter = None) =>
             Count(calls', "OpenPrinterW") = 1
       /\ (lastOp = "Open" /\ lastOp' = "Open") =>
             /\ calls' = <<>>
             /\ hprinter' = hprinter
             /\ Count(calls, "OpenPrinterW") + Count(calls', "OpenPrinterW") <= 1]_vars

C9_Witness ==
    /\ prev.op = "Open"
    /\ lastOp = "Open"
    /\ calls = <<>>
    /\ hprinter.value \in osHandles

\* C10: Close never raises; with no handle held it makes no call and changes
\* nothing, with a handle held it makes exactly one ClosePrinter call and
\* leaves no handle, whatever ClosePrinter answers.
C10_CloseIdempotent ==
    [][lastOp' = "Close" =>
        /\ raised' = "none"
        /\ hprinter' = None
        /\ (hprinter = None => calls' = <<>> /\ osHandles' = osHandles)
        /\ (hprinter # None =>
              /\ Fns(calls') = <<"ClosePrinter">>
              /\ calls'[1].h = hprinter.value)]_vars

C10_Witness ==
    /\ lastOp = "Close"
    /\ Failed(calls, "ClosePrinter")
    /\ hprinter = None

\* C11: dispose, and __del__ which runs it, never raises and leaves no handle
\* held and none open at the spooler, in whatever state it is called; a
\* dispose that follows a dispose makes no call and changes nothing.
C11_DisposeReleases ==
    [][lastOp' \in {"Dispose", "__del__"} =>
        /\ raised' = "none"
        /\ hprinter' = None
        /\ osHandles' = {}
        /\ Count(calls', "ClosePrinter") = (IF hprinter = None THEN 0 ELSE 1)
        /\ (lastOp = "Dispose" => calls' = <<>> /\ osHandles' = osHandles)]_vars

C11_Witness ==
    /\ lastOp = "Dispose"
    /\ prev.op = "Write"
    /\ prev.raised \in JobErrors
    /\ Fns(calls) = <<"ClosePrinter">>
    /\ calls[1].h > 0
    /\ hprinter = None

\* C12: __init__ with a name that resolves non-empty calls OpenPrinterW once;
\* if that succeeds it calls ClosePrinter on the handle right after and the
\* session holds no handle; if it fails __init__ raises the ValueError that
\* carries the text of the open error and there is no session.  Either way no
\* handle is left open at the spooler.
C12_ConstructProbe ==
    (/\ lastOp = "Construct"
     /\ device_specifier.isStr
     /\ device_specifier.chars \notin {<<>>, Prefix}) =>
        /\ Count(calls, "OpenPrinterW") = 1
        /\ calls[1].fn = "OpenPrinterW"
        /\ osHandles = {}
        /\ IF calls[1].ok
           THEN /\ Fns(calls) = <<"OpenPrinterW", "ClosePrinter">>
                /\ calls[2].h = calls[1].h
                /\ raised = "none"
                /\ hprinter = None
                /\ phase = "live"
           ELSE /\ Fns(calls) = <<"OpenPrinterW">>
                /\ raised = "ValueError:Could not open printer: OSError"
                /\ phase = "failed"

C12_Witness ==
    /\ lastOp = "Construct"
    /\ Fns(calls) = <<"OpenPrinterW", "ClosePrinter">>
    /\ ~calls[2].ok
    /\ phase = "live"
    /\ hprinter = None

\* C13: __init__ given something that is not a string raises
\* NotImplementedError, and given a string that resolves to the empty name
\* raises the invalid-name ValueError, in both cases without a single
\* winspool call, also when the rejected object is torn down.
C13_RejectBeforeOsCall ==
    /\ (lastOp = "Construct" /\ ~device_specifier.isStr) =>
          (raised = "NotImplementedError" /\ calls = <<>> /\ phase = "failed")
    /\ (lastOp = "Construct" /\ device_specifier.isStr
           /\ device_specifier.chars \in {<<>>, Prefix}) =>
          (raised = "ValueError:Invalid printer name" /\ calls = <<>>
              /\ phase = "failed")
    /\ (lastOp = "__del__" /\ prev.op = "Construct"
           /\ (~device_specifier.isStr
                  \/ device_specifier.chars \in {<<>>, Prefix})) =>
          calls = <<>>

C13_Witness ==
    /\ lastOp = "Construct"
    /\ device_specifier.isStr
    /\ device_specifier.chars = Prefix
    /\ raised = "ValueError:Invalid printer name"

\* C14: for a string that starts with the scheme prefix the resolved name is
\* the rest after one leading prefix, a second prefix staying in the name; for
\* any other string it is the string itself; the prefix alone and the empty
\* string are rejected with the invalid-name ValueError.
Suffixes(s) == {SubSeq(s, i, Len(s)) : i \in 1..(Len(s) + 1)}
Expected(s) ==
    IF \E rest \in Suffixes(s) : s = Prefix \o rest
    THEN CHOOSE rest \in Suffixes(s) : s = Prefix \o rest
    ELSE s

C14_ResolvedName ==
    (lastOp = "Construct" /\ device_specifier.isStr) =>
        IF Expected(device_specifier.chars) = <<>>
        THEN raised = "ValueError:Invalid printer name"
        ELSE /\ printer_name = Expected(device_specifier.chars)
             /\ raised # "ValueError:Invalid printer name"

C14_Witness ==
    /\ lastOp = "Construct"
    /\ device_specifier.isStr
    /\ device_specifier.chars = Prefix \o Prefix \o <<"Q">>
    /\ printer_name = Prefix \o <<"Q">>

\* C15: _read returns bytes of length zero whatever length is asked for and
\* whatever state the session is in, makes no winspool call and leaves the
\* handle and the printer name as they were.
C15_ReadEmpty ==
    [][lastOp' = "Read" =>
        /\ returned'.isBytes
        /\ Len(returned'.bytes) = 0
        /\ raised' = "none"
        /\ calls' = <<>>
        /\ hprinter' = hprinter
        /\ printer_name' = printer_name
        /\ osHandles' = osHandles]_vars

C15_Witness ==
    /\ lastOp = "Read"
    /\ returned = Bytes(<<>>)
    /\ hprinter.value \in osHandles
    /\ prev.op = "Write"

\* what the registry holds and what the enumeration got to see of it
Mentions(name, marker) ==
    \E i \in 1..Len(name), j \in 1..Len(name) : SubSeq(name, i, j) = marker
Matches(name) ==
    Mentions(name, <<"B", "r", "o", "t", "h", "e", "r">>)
        \/ Mentions(name, <<"Q", "L">>)
Wrapped(names) ==
    [k \in 1..Len(names) |->
        [identifier |-> <<"w", "i", "n", "d", "o", "w", "s", ":", "/", "/">>
                           \o names[k],
         instance |-> "None"]]
Fallback == Wrapped(common_names)
QueryThrew ==
    \/ ~registry.importOk
    \/ ~registry.openOk
    \/ registry.failAt < Len(registry.names)

\* C16 as stated: the enumerator never raises; it returns the registered
\* names that carry a marker, in registry order and wrapped, when there is one
\* and the registry query did not throw, and the four common names otherwise.
C16_MatchesOrFallback ==
    listing.done =>
        /\ listing.raised = "none"
        /\ IF QueryThrew \/ SelectSeq(registry.names, Matches) = <<>>
           THEN listing.devices = Fallback
           ELSE listing.devices = Wrapped(SelectSeq(registry.names, Matches))

\* C16 amended: the enumerator never raises; it returns the empty list when
\* winreg cannot be imported; otherwise the names carrying a marker among
\* those EnumKey delivered before its first error (none when OpenKey failed),
\* in that order and wrapped, when there is one, and the four common names
\* when there is none; the result never mixes the two.
C16_MatchesFallbackOrEmpty ==
    listing.done =>
        LET seen == IF registry.openOk
                    THEN SubSeq(registry.names, 1, registry.failAt)
                    ELSE <<>>
            hits == SelectSeq(seen, Matches)
        IN  /\ listing.raised = "none"
            /\ IF ~registry.importOk THEN listing.devices = <<>>
               ELSE IF hits = <<>> THEN listing.devices = Fallback
               ELSE listing.devices = Wrapped(hits)

C16_Witness ==
    /\ listing.done
    /\ registry.importOk
    /\ registry.openOk
    /\ registry.failAt = Len(registry.names)
    /\ registry.names = <<<<"H", "P">>, Brother \o <<" ">> \o QL>>
    /\ Len(listing.devices) = 1

\* C17: when StartPagePrinter fails in a write, the write raises the
\* page-start error, WritePrinter is not called, and EndDocPrinter is the
\* last call made before the error leaves the write.
C17_BeginPageFailure ==
    (lastOp = "Write" /\ Failed(calls, "StartPagePrinter")) =>
        /\ raised = "IOError:StartPagePrinter"
        /\ Count(calls, "WritePrinter") = 0
        /\ Count(calls, "EndDocPrinter") = 1
        /\ calls[Len(calls)].fn = "EndDocPrinter"

C17_Witness ==
    /\ lastOp = "Write"
    /\ raised = "IOError:StartPagePrinter"
    /\ Fns(calls) = <<"StartDocPrinterW", "StartPagePrinter", "EndDocPrinter">>
    /\ ~calls[3].ok

TeardownNeverFails ==
    (/\ lastOp = "Write"
     /\ Succeeded(calls, "StartDocPrinterW")
     /\ Succeeded(calls, "StartPagePrinter")
     /\ Succeeded(calls, "WritePrinter")) =>
        /\ raised = "none"
        /\ Count(calls, "EndPagePrinter") = 1
        /\ Count(calls, "EndDocPrinter") = 1
        /\ calls[Len(calls)].fn = "EndDocPrinter"

\* C18 as stated: a write whose StartDocPrinterW, StartPagePrinter and
\* WritePrinter succeed returns normally whatever EndPagePrinter and
\* EndDocPrinter answer, EndDocPrinter being called also after a failed
\* EndPagePrinter; and a write raises nothing but the open error and the
\* three job errors.
C18_OnlyJobErrors ==
    /\ TeardownNeverFails
    /\ lastOp = "Write" => raised \in {"none", "OSError"} \cup JobErrors

\* C18 amended: as stated, except that a write of a text payload that
\* latin-1 cannot encode raises the encoding error, before any job call.
C18_OnlyJobOrEncodeErrors ==
    /\ TeardownNeverFails
    /\ lastOp = "Write" =>
          raised \in {"none", "OSError", "UnicodeEncodeError"} \cup JobErrors
    /\ (lastOp = "Write" /\ raised = "UnicodeEncodeError") =>
          /\ Count(calls, "StartDocPrinterW") = 0
          /\ requested = NoCount

C18_Witness ==
    /\ lastOp = "Write"
    /\ raised = "none"
    /\ Failed(calls, "EndPagePrinter")
    /\ Failed(calls, "EndDocPrinter")
    /\ Fns(calls) = FullJob

\* C19: the spooler never has more than one handle of the session open, and
\* OpenPrinterW is never called while the session holds an open handle.
C19_AtMostOneHandle ==
    [][/\ Cardinality(osHandles') <= 1
       /\ Count(calls', "OpenPrinterW") > 0 =>
             (osHandles = {} /\ hprinter.value \notin osHandles)]_vars

C19_Witness ==
    /\ lastOp = "Write"
    /\ prev.op = "Dispose"
    /\ Succeeded(calls, "OpenPrinterW")
    /\ Cardinality(osHandles) = 1

\* C20: every winspool call that takes the handle is made with a handle that
\* a successful OpenPrinterW returned and that was not closed since; the value
\* a failed OpenPrinterW left behind is never passed to any of them.
LiveAt(cs, i, os) ==
    (os \cup Opened(SubSeq(cs, 1, i - 1))) \ Closed(SubSeq(cs, 1, i - 1))

C20_OnlyLiveHandles ==
    [][\A i \in 1..Len(calls') :
          calls'[i].fn # "OpenPrinterW" =>
              calls'[i].h \in LiveAt(calls', i, osHandles)]_vars
====
